---- MODULE Spec2Model ----
(***************************************************************************)
(* The Dashboard component of the HLP Broadcaster Suite                    *)
(* (src/unnamed/part_000, Dashboard; src/src/App.tsx holds the same        *)
(* component without the toast).                                           *)
(*                                                                         *)
(* One action per callback the component registers: the connection effect  *)
(* (first run and re-run on a change of its dependencies [volume, muted]), *)
(* es.onopen, the "connected" listener, the "play-sound" listener,         *)
(* es.onerror, the rejection callback of audio.play(), the mute button,    *)
(* the volume slider and the Clear History button.  Every callback runs    *)
(* to completion on the single JavaScript thread, so each is one step.     *)
(* A change of muted or volume comes from a discrete input event: React    *)
(* renders, commits and flushes the passive effects of such an update      *)
(* before it returns to the event loop, so the effect cleanup and re-run   *)
(* belong to the step of the input handler.                                *)
(***************************************************************************)
EXTENDS Naturals, Sequences, FiniteSets, TLC

VARIABLES
  status,        \* useState "disconnected" | "connecting" | "connected"
  events,        \* useState EventRecord[], newest first
  eventCount,    \* useState number
  soundsPlayed,  \* useState number
  muted,         \* useState boolean
  volume,        \* useState number, in percent (the slider's 0..1 step 0.05)
  connectedAt,   \* useState Date | null: <<>> or <<instant>>
  toast,         \* useState {username, rewardName} | null: <<>> or <<record>>
  timers,        \* pending setTimeout callbacks: sequence of deadlines
  audio,         \* audioRef and the element it holds
  plays,         \* pending promises of audio.play(): the filenames captured
  es,            \* the EventSource objects created so far, oldest first
  now,           \* Date.now()
  mounted,       \* the component has been committed and its effect has run
  last,          \* history: the callback that ran last, with its input
  trace,         \* history: the calls that callback made, in order
  recorded,      \* history: every record passed to setEvents since the last
                 \* clearHistory, oldest first
  inbound,       \* history: number of server events ("connected",
                 \* "play-sound") handled since the last clearHistory
  calls,         \* number of callbacks run so far (bounds the exploration)
  shown,         \* history: the last setToast of a cue: when, for whom, and
                 \* whether no clearance was pending then
  video,         \* VideoOverlay: the <video> element videoRef holds
  visible,       \* VideoOverlay: useState boolean
  vtoast,        \* VideoOverlay: useState toast
  vtimers,       \* VideoOverlay: pending setTimeout callbacks (deadlines)
  ves,           \* VideoOverlay: readyState of its EventSource
  vmounted,      \* VideoOverlay: committed, its effect has run
  origin,        \* history: origin[k] is the EventSource whose listener
                 \* requested the k-th pending play
  uptime         \* useState string, as the sequence of its characters

vars == <<status, events, eventCount, soundsPlayed, muted, volume,
          connectedAt, toast, timers, audio, plays, es,
          now, mounted, last, trace, recorded, inbound, calls, shown,
          video, visible, vtoast, vtimers, ves, vmounted, origin, uptime>>

\* the state of the VideoOverlay component
overlayVars == <<video, visible, vtoast, vtimers, ves, vmounted>>

\* the state of the Dashboard component
dashboardVars == <<status, events, eventCount, soundsPlayed, muted, volume,
                   connectedAt, toast, timers, audio, plays, origin, es,
                   mounted, recorded, inbound, uptime>>

----------------------------------------------------------------------------
(* Bounds of the exploration *)

MaxCalls == 6

BurstLen == 103

TailFrom == 98

MaxTail == 2

MaxToastCalls == 7

MaxVideoCalls == 7

MaxClockCalls == 5

MaxUptimeCalls == 3

MaxFairCalls == 5

(* Program constants *)

KeepPrev == 99

HistoryCap == 100

ToastDelay == 5000

DefaultVolume == 70

apiBase == "http://localhost:8787"

Min(a, b) == IF a < b THEN a ELSE b

----------------------------------------------------------------------------
(* JavaScript values.  An optional property is <<>> when absent and <<v>>   *)
(* when present.                                                           *)

Absent == <<>>

Some(v) == <<v>>

\* `${x}` in a template literal
TemplateString(opt) == IF opt = Absent THEN "undefined" ELSE opt[1]

\* x used as a condition: undefined and "" are falsy
Truthy(opt) == opt # Absent /\ opt[1] # ""

Obj(src, filename, username, rewardName) ==
  [kind |-> "object", src |-> src, filename |-> filename,
   username |-> username, rewardName |-> rewardName]

\* the data field of the MessageEvents the server may send as "play-sound"
TextFull == "{\"src\":\"/s/a.mp3\",\"filename\":\"a.mp3\",\"username\":\"alice\",\"rewardName\":\"confetti\"}"

TextPlain == "{\"src\":\"/s/b.mp3\",\"filename\":\"b.mp3\"}"

TextNoReward == "{\"src\":\"/s/a.mp3\",\"filename\":\"a.mp3\",\"username\":\"alice\"}"

TextEmptyUser == "{\"src\":\"/s/b.mp3\",\"filename\":\"b.mp3\",\"username\":\"\",\"rewardName\":\"confetti\"}"

TextNoFilename == "{\"src\":\"/s/a.mp3\"}"

TextEmptyObject == "{}"

TextNull == "null"

TextNumber == "5"

TextNotJSON == "play a.mp3"

\* a second cue with attribution, from another viewer
TextOther == "{\"src\":\"/s/c.mp3\",\"filename\":\"c.mp3\",\"username\":\"bob\",\"rewardName\":\"hydrate\"}"

\* the data field of the MessageEvents the server may send as "play-video"
VideoFull == "{\"src\":\"/v/a.mp4\",\"username\":\"alice\",\"rewardName\":\"confetti\"}"

VideoOther == "{\"src\":\"/v/c.mp4\",\"username\":\"bob\",\"rewardName\":\"hydrate\"}"

VideoPlain == "{\"src\":\"/v/b.mp4\"}"

VideoEmptyReward == "{\"src\":\"/v/b.mp4\",\"username\":\"bob\",\"rewardName\":\"\"}"

WellFormed == {TextFull, TextPlain, TextNoReward, TextEmptyUser}

SchemaViolating == {TextNoFilename, TextEmptyObject, TextNull, TextNumber}

NotJSON == {TextNotJSON}

MessageData == WellFormed \cup SchemaViolating \cup NotJSON

\* JSON.parse(e.data): a SyntaxError on text that is not JSON, else the value
JSONParse(text) ==
  CASE text = TextFull ->
         [threw |-> FALSE,
          value |-> Obj(Some("/s/a.mp3"), Some("a.mp3"), Some("alice"), Some("confetti"))]
    [] text = TextPlain ->
         [threw |-> FALSE,
          value |-> Obj(Some("/s/b.mp3"), Some("b.mp3"), Absent, Absent)]
    [] text = TextNoReward ->
         [threw |-> FALSE,
          value |-> Obj(Some("/s/a.mp3"), Some("a.mp3"), Some("alice"), Absent)]
    [] text = TextEmptyUser ->
         [threw |-> FALSE,
          value |-> Obj(Some("/s/b.mp3"), Some("b.mp3"), Some(""), Some("confetti"))]
    [] text = TextNoFilename ->
         [threw |-> FALSE,
          value |-> Obj(Some("/s/a.mp3"), Absent, Absent, Absent)]
    [] text = TextEmptyObject ->
         [threw |-> FALSE, value |-> Obj(Absent, Absent, Absent, Absent)]
    [] text = TextOther ->
         [threw |-> FALSE,
          value |-> Obj(Some("/s/c.mp3"), Some("c.mp3"), Some("bob"), Some("hydrate"))]
    [] text = VideoFull ->
         [threw |-> FALSE,
          value |-> Obj(Some("/v/a.mp4"), Absent, Some("alice"), Some("confetti"))]
    [] text = VideoOther ->
         [threw |-> FALSE,
          value |-> Obj(Some("/v/c.mp4"), Absent, Some("bob"), Some("hydrate"))]
    [] text = VideoPlain ->
         [threw |-> FALSE,
          value |-> Obj(Some("/v/b.mp4"), Absent, Absent, Absent)]
    [] text = VideoEmptyReward ->
         [threw |-> FALSE,
          value |-> Obj(Some("/v/b.mp4"), Absent, Some("bob"), Some(""))]
    [] text = TextNull -> [threw |-> FALSE, value |-> [kind |-> "null"]]
    [] text = TextNumber -> [threw |-> FALSE, value |-> [kind |-> "number"]]
    [] OTHER -> [threw |-> TRUE, value |-> [kind |-> "undefined"]]

\* payload.<property>: a TypeError on null, undefined on a value without it
GetThrows(payload) == payload.kind = "null"

Get(payload, property) ==
  IF payload.kind = "object" THEN payload[property] ELSE Absent

----------------------------------------------------------------------------
(* EventHistory: addEvent and clearHistory *)

\* the three pieces of state addEvent and clearHistory write, with the
\* history of what was recorded
H == [events |-> events, eventCount |-> eventCount, recorded |-> recorded]

EventRecord(type, description, data) ==
  [id |-> ToString(now), type |-> type, timestamp |-> now, data |-> data,
   description |-> description]

\* mutant: prev.slice(0, 100)
PushedKeepOneMore(prev, event) ==
  <<event>> \o SubSeq(prev, 1, Min(Len(prev), KeepPrev + 1))

\* mutant: [...prev.slice(0, 99), event]
PushedAtEnd(prev, event) ==
  Append(SubSeq(prev, 1, Min(Len(prev), KeepPrev)), event)

\* the updater (prev) => [event, ...prev.slice(0, 99)]
Pushed(prev, event) == <<event>> \o SubSeq(prev, 1, Min(Len(prev), KeepPrev))

\* mutant: setEventCount is not called
AddEventNoCount(h, type, description, data) ==
  LET event == EventRecord(type, description, data)
  IN  [events |-> Pushed(h.events, event),
       eventCount |-> h.eventCount,
       recorded |-> Append(h.recorded, event)]

AddEvent(h, type, description, data) ==
  LET event == EventRecord(type, description, data)
  IN  [events |-> Pushed(h.events, event),
       eventCount |-> h.eventCount + 1,
       recorded |-> Append(h.recorded, event)]

SetHistory(h) ==
  /\ events' = h.events
  /\ eventCount' = h.eventCount
  /\ recorded' = h.recorded

----------------------------------------------------------------------------
(* The EventSource objects.  es[i] is the i-th one created: its readyState  *)
(* and the muted and volume its listeners captured when the effect run      *)
(* that created it registered them.                                         *)

NewEventSource(m, v) == [state |-> "connecting", muted |-> m, volume |-> v]

\* mutant: es.close() reaches the first EventSource ever created
ClosedFirst(ess) ==
  IF ess = <<>> THEN ess ELSE [ess EXCEPT ![1].state = "closed"]

\* es.close() of the effect run that created the newest EventSource
Closed(ess) ==
  IF ess = <<>> THEN ess ELSE [ess EXCEPT ![Len(ess)].state = "closed"]

Init ==
  /\ status = "disconnected"
  /\ events = <<>>
  /\ eventCount = 0
  /\ soundsPlayed = 0
  /\ muted = FALSE
  /\ volume = DefaultVolume
  /\ connectedAt = Absent
  /\ toast = Absent
  /\ timers = <<>>
  /\ audio = [ref |-> "null", created |-> 0, volume |-> 100, src |-> ""]
  /\ plays = <<>>
  /\ origin = <<>>
  /\ uptime = <<"0", "0", ":", "0", "0", ":", "0", "0">>
  /\ es = <<>>
  /\ now = 0
  /\ mounted = FALSE
  /\ last = [op |-> "construct", data |-> "", n |-> 0]
  /\ trace = <<>>
  /\ recorded = <<>>
  /\ inbound = 0
  /\ calls = 0
  /\ shown = Absent
  /\ video = [src |-> Absent, resource |-> Absent, phase |-> "empty",
              muted |-> TRUE, volume |-> 100, tasks |-> <<>>]
  /\ visible = FALSE
  /\ vtoast = Absent
  /\ vtimers = <<>>
  /\ ves = "none"
  /\ vmounted = FALSE

\* mutant: the effect leaves the status as it is
EffectBodyKeepsStatus(h, ess, m, v) ==
  /\ status' = status
  /\ SetHistory(AddEvent(h, "system", "Connecting to server...", Absent))
  /\ es' = Append(ess, NewEventSource(m, v))

\* the body of the connection effect, run with the rendered muted and volume
EffectBody(h, ess, m, v) ==
  /\ status' = "connecting"
  /\ SetHistory(AddEvent(h, "system", "Connecting to server...", Absent))
  /\ es' = Append(ess, NewEventSource(m, v))

\* mutant: the cleanup records the disconnection and leaves the transport open
EffectCleanupLeavesOpen(h, ess) ==
  [h |-> AddEvent(h, "system", "Disconnected from server", Absent),
   es |-> ess]

\* the function the effect returns
EffectCleanup(h, ess) ==
  [h |-> AddEvent(h, "system", "Disconnected from server", Absent),
   es |-> Closed(ess)]

\* first commit: the <audio> element is attached to audioRef, then the
\* effect runs for the first time
Mount ==
  /\ ~mounted
  /\ ~vmounted
  /\ mounted' = TRUE
  /\ audio' = [audio EXCEPT !.ref = "element"]
  /\ EffectBody(H, es, muted, volume)
  /\ last' = [op |-> "mount", data |-> "", n |-> 0]
  /\ trace' = <<"setStatus", "addEvent", "new EventSource">>
  /\ UNCHANGED <<soundsPlayed, muted, volume, connectedAt, toast, timers,
                 plays, origin, now, inbound,
                 shown, overlayVars, uptime>>

----------------------------------------------------------------------------
(* The listeners of the i-th EventSource.  The transport invokes them only  *)
(* while that EventSource is not closed, and delivers messages only while   *)
(* it is open.                                                              *)

\* mutant: onopen leaves the status as it is set by the effect
StatusOnOpenConnecting == "connecting"

\* setStatus("connected") of es.onopen and of the "connected" listener
StatusOnOpen == "connected"

\* mutant: an error reports the connection as gone
StatusOnErrorDisconnected == "disconnected"

\* setStatus("connecting") of es.onerror
StatusOnError == "connecting"

\* es.onopen
OnOpen(i) ==
  /\ i \in DOMAIN es
  /\ es[i].state = "connecting"
  /\ es' = [es EXCEPT ![i].state = "open"]
  /\ status' = StatusOnOpen
  /\ connectedAt' = Some(now)
  /\ SetHistory(AddEvent(H, "connection", "Connected to server", Absent))
  /\ last' = [op |-> "open", data |-> "", n |-> i]
  /\ trace' = <<"setStatus", "setConnectedAt", "addEvent">>
  /\ UNCHANGED <<soundsPlayed, muted, volume, toast, timers, audio, plays, origin,
                 now, mounted, inbound,
                 shown, overlayVars, uptime>>

\* mutant: the listener records nothing
OnConnectedSilent(i) ==
  /\ i \in DOMAIN es
  /\ es[i].state = "open"
  /\ status' = StatusOnOpen
  /\ connectedAt' = Some(now)
  /\ last' = [op |-> "connected", data |-> "", n |-> i]
  /\ trace' = <<"setStatus", "setConnectedAt">>
  /\ inbound' = inbound + 1
  /\ UNCHANGED <<events, eventCount, recorded, soundsPlayed, muted, volume,
                 toast, timers, audio, plays, origin, es, now, mounted,
                 shown, overlayVars, uptime>>

\* the "connected" listener
OnConnected(i) ==
  /\ i \in DOMAIN es
  /\ es[i].state = "open"
  /\ status' = StatusOnOpen
  /\ connectedAt' = Some(now)
  /\ SetHistory(AddEvent(H, "connection", "Server connection established", Absent))
  /\ last' = [op |-> "connected", data |-> "", n |-> i]
  /\ trace' = <<"setStatus", "setConnectedAt", "addEvent">>
  /\ inbound' = inbound + 1
  /\ UNCHANGED <<soundsPlayed, muted, volume, toast, timers, audio, plays, origin,
                 es, now, mounted,
                 shown, overlayVars, uptime>>

\* mutant: the listener reconnects by itself, closing the EventSource and
\* opening another
OnErrorReconnect(i, fatal) ==
  /\ i \in DOMAIN es
  /\ es[i].state \in {"connecting", "open"}
  /\ es' = Append([es EXCEPT ![i].state = "closed"],
                  NewEventSource(es[i].muted, es[i].volume))
  /\ status' = StatusOnError
  /\ SetHistory(AddEvent(H, "error", "Connection lost, attempting to reconnect...", Absent))
  /\ last' = [op |-> "error", data |-> IF fatal THEN "fatal" ELSE "retry", n |-> i]
  /\ trace' = <<"setStatus", "addEvent", "es.close", "new EventSource">>
  /\ UNCHANGED <<soundsPlayed, muted, volume, connectedAt, toast, timers,
                 audio, plays, origin, now, mounted, inbound,
                 shown, overlayVars, uptime>>

\* mutant: the listener also forgets when the connection opened
OnErrorForgets(i, fatal) ==
  /\ i \in DOMAIN es
  /\ es[i].state \in {"connecting", "open"}
  /\ es' = [es EXCEPT ![i].state = IF fatal THEN "closed" ELSE "connecting"]
  /\ status' = StatusOnError
  /\ connectedAt' = Absent
  /\ SetHistory(AddEvent(H, "error", "Connection lost, attempting to reconnect...", Absent))
  /\ last' = [op |-> "error", data |-> IF fatal THEN "fatal" ELSE "retry", n |-> i]
  /\ trace' = <<"setStatus", "setConnectedAt", "addEvent">>
  /\ UNCHANGED <<soundsPlayed, muted, volume, toast, timers,
                 audio, plays, origin, now, mounted, inbound,
                 shown, overlayVars, uptime>>

\* es.onerror.  The transport reports an error when the connection drops
\* and it is about to retry (readyState CONNECTING) and when it gives up
\* (readyState CLOSED); the listener itself touches no EventSource.
OnError(i, fatal) ==
  /\ i \in DOMAIN es
  /\ es[i].state \in {"connecting", "open"}
  /\ es' = [es EXCEPT ![i].state = IF fatal THEN "closed" ELSE "connecting"]
  /\ status' = StatusOnError
  /\ SetHistory(AddEvent(H, "error", "Connection lost, attempting to reconnect...", Absent))
  /\ last' = [op |-> "error", data |-> IF fatal THEN "fatal" ELSE "retry", n |-> i]
  /\ trace' = <<"setStatus", "addEvent">>
  /\ UNCHANGED <<soundsPlayed, muted, volume, connectedAt, toast, timers,
                 audio, plays, origin, now, mounted, inbound,
                 shown, overlayVars, uptime>>

\* if (!muted), with the muted the listener captured
ShouldPlay(source) == ~source.muted

\* mutant: if (payload.username)
ShouldToastUsernameOnly(payload) ==
  Truthy(Get(payload, "username"))

\* if (payload.username && payload.rewardName)
ShouldToast(payload) ==
  Truthy(Get(payload, "username")) /\ Truthy(Get(payload, "rewardName"))

\* setToast({ username, rewardName }) of a cue that qualifies
ToastAfterCue(t, payload) ==
  IF ShouldToast(payload)
  THEN Some([username |-> Get(payload, "username")[1],
             rewardName |-> Get(payload, "rewardName")[1]])
  ELSE t

\* mutant: the toast is set and no clearance is scheduled
TimersAfterCueNone(ts, payload) == ts

\* mutant: a new toast cancels the clearances that are pending
TimersAfterCueCancelling(ts, payload) ==
  IF ShouldToast(payload) THEN <<now + ToastDelay>> ELSE ts

\* setTimeout(() => setToast(null), 5000) of a cue that qualifies; the
\* handle it returns is dropped
TimersAfterCue(ts, payload) ==
  IF ShouldToast(payload) THEN Append(ts, now + ToastDelay) ELSE ts

\* history: which toast the cue set, when, and whether no clearance was
\* pending then
ShownAfterCue(ts, payload) ==
  IF ShouldToast(payload)
  THEN Some([at |-> now, alone |-> ts = <<>>,
             username |-> Get(payload, "username")[1],
             rewardName |-> Get(payload, "rewardName")[1]])
  ELSE shown

\* mutant: the volume of the handle is left as it is
AudioAfterCueKeepsVolume(a, source, payload) ==
  [ref |-> IF a.ref = "null" THEN "created" ELSE a.ref,
   created |-> IF a.ref = "null" THEN a.created + 1 ELSE a.created,
   volume |-> a.volume,
   src |-> apiBase \o TemplateString(Get(payload, "src"))]

\* mutant: new Audio() for every cue
AudioAfterCueFresh(a, source, payload) ==
  [ref |-> "created",
   created |-> a.created + 1,
   volume |-> source.volume,
   src |-> apiBase \o TemplateString(Get(payload, "src"))]

\* audioRef.current ?? new Audio(), then volume and src are assigned
AudioAfterCue(a, source, payload) ==
  [ref |-> IF a.ref = "null" THEN "created" ELSE a.ref,
   created |-> IF a.ref = "null" THEN a.created + 1 ELSE a.created,
   volume |-> source.volume,
   src |-> apiBase \o TemplateString(Get(payload, "src"))]

\* mutant: the cue is recorded under another type
SoundEventTypeSystem == "system"

\* the type of addEvent("sound", `Playing: ${payload.filename}`, payload)
SoundEventType == "sound"

\* the try block throws: JSON.parse on text that is not JSON, or
\* payload.filename on null
CueThrows(text) ==
  JSONParse(text).threw \/ GetThrows(JSONParse(text).value)

\* the "play-sound" listener
PlaySound(i, text) ==
  /\ i \in DOMAIN es
  /\ es[i].state = "open"
  /\ last' = [op |-> "play-sound", data |-> text, n |-> i]
  /\ IF CueThrows(text)
     THEN /\ SetHistory(AddEvent(H, "error", "Failed to parse sound event", Absent))
          /\ trace' = <<"JSON.parse", "addEvent">>
          /\ UNCHANGED <<soundsPlayed, toast, timers, audio, plays, origin, shown>>
     ELSE LET payload == JSONParse(text).value
              filename == TemplateString(Get(payload, "filename"))
              play == ShouldPlay(es[i])
              show == ShouldToast(payload)
          IN  /\ SetHistory(AddEvent(H, SoundEventType, "Playing: " \o filename, Some(payload)))
              /\ soundsPlayed' = soundsPlayed + 1
              /\ audio' = IF play THEN AudioAfterCue(audio, es[i], payload) ELSE audio
              /\ plays' = IF play THEN Append(plays, filename) ELSE plays
              /\ origin' = IF play THEN Append(origin, i) ELSE origin
              /\ toast' = ToastAfterCue(toast, payload)
              /\ timers' = TimersAfterCue(timers, payload)
              /\ shown' = ShownAfterCue(timers, payload)
              /\ trace' = <<"JSON.parse", "addEvent", "setSoundsPlayed">>
                          \o (IF play /\ audio.ref = "null" THEN <<"new Audio">> ELSE <<>>)
                          \o (IF play THEN <<"audio.volume", "audio.src", "audio.play">> ELSE <<>>)
                          \o (IF show THEN <<"setToast", "setTimeout">> ELSE <<>>)
  /\ inbound' = inbound + 1
  /\ UNCHANGED <<status, muted, volume, connectedAt, es, now, mounted,
                 overlayVars, uptime>>

Remove(seq, k) == SubSeq(seq, 1, k - 1) \o SubSeq(seq, k + 1, Len(seq))

\* mutant: the catch also takes the cue back out of the sound counter
PlayRejectedUncounts(k) ==
  /\ k \in DOMAIN plays
  /\ SetHistory(AddEvent(H, "error", "Failed to play: " \o plays[k], Absent))
  /\ soundsPlayed' = soundsPlayed - 1
  /\ plays' = Remove(plays, k)
  /\ origin' = Remove(origin, k)
  /\ last' = [op |-> "play-rejected", data |-> plays[k], n |-> k,
              from |-> origin[k]]
  /\ trace' = <<"addEvent", "setSoundsPlayed">>
  /\ UNCHANGED <<status, muted, volume, connectedAt, toast,
                 timers, audio, es, now, mounted, inbound,
                 shown, overlayVars, uptime>>

\* the promise of the k-th pending audio.play() is rejected: its catch runs
PlayRejected(k) ==
  /\ k \in DOMAIN plays
  /\ SetHistory(AddEvent(H, "error", "Failed to play: " \o plays[k], Absent))
  /\ plays' = Remove(plays, k)
  /\ origin' = Remove(origin, k)
  /\ last' = [op |-> "play-rejected", data |-> plays[k], n |-> k,
              from |-> origin[k]]
  /\ trace' = <<"addEvent">>
  /\ UNCHANGED <<status, soundsPlayed, muted, volume, connectedAt, toast,
                 timers, audio, es, now, mounted, inbound,
                 shown, overlayVars, uptime>>

\* the promise of the k-th pending audio.play() is fulfilled: nothing runs
PlayFulfilled(k) ==
  /\ k \in DOMAIN plays
  /\ plays' = Remove(plays, k)
  /\ origin' = Remove(origin, k)
  /\ last' = [op |-> "play-fulfilled", data |-> plays[k], n |-> k,
              from |-> origin[k]]
  /\ trace' = <<>>
  /\ UNCHANGED <<status, events, eventCount, soundsPlayed, muted, volume,
                 connectedAt, toast, timers, audio, es, now, mounted, recorded,
                 inbound,
                 shown, overlayVars, uptime>>

----------------------------------------------------------------------------
(* The controls *)

Volumes == {50, DefaultVolume}

\* mutant: the dependency array is [volume]
DepsChangedVolumeOnly(m, v) == v # volume

\* the dependency array [volume, muted] of the connection effect
DepsChanged(m, v) == m # muted \/ v # volume

\* a render with muted = m and volume = v, and the effects it flushes
Render(m, v) ==
  /\ muted' = m
  /\ volume' = v
  /\ IF DepsChanged(m, v)
     THEN LET c == EffectCleanup(H, es)
          IN  /\ EffectBody(c.h, c.es, m, v)
              /\ trace' = <<"es.close", "addEvent", "setStatus", "addEvent",
                            "new EventSource">>
     ELSE /\ trace' = <<>>
          /\ UNCHANGED <<status, events, eventCount, recorded, es>>

\* onClick of the mute button: setMuted(!muted)
ToggleMute ==
  /\ mounted
  /\ Render(~muted, volume)
  /\ last' = [op |-> "toggle-mute", data |-> "", n |-> 0]
  /\ UNCHANGED <<soundsPlayed, connectedAt, toast, timers, audio, plays, origin, now,
                 mounted, inbound,
                 shown, overlayVars, uptime>>

\* onChange of the volume slider (disabled while muted): setVolume(v)
ChangeVolume(v) ==
  /\ mounted
  /\ ~muted
  /\ v # volume
  /\ Render(muted, v)
  /\ last' = [op |-> "change-volume", data |-> "", n |-> v]
  /\ UNCHANGED <<soundsPlayed, connectedAt, toast, timers, audio, plays, origin, now,
                 mounted, inbound,
                 shown, overlayVars, uptime>>

\* mutant: clearing the history keeps the count of sounds
ClearHistoryKeepsSounds ==
  /\ mounted
  /\ events' = <<>>
  /\ eventCount' = 0
  /\ recorded' = <<>>
  /\ inbound' = 0
  /\ last' = [op |-> "clear-history", data |-> "", n |-> 0]
  /\ trace' = <<"setEvents", "setEventCount">>
  /\ UNCHANGED <<status, soundsPlayed, muted, volume, connectedAt, toast,
                 timers, audio, plays, origin, es, now, mounted,
                 shown, overlayVars, uptime>>

\* mutant: clearing the history also forgets when the connection opened
ClearHistoryResetsUptime ==
  /\ mounted
  /\ events' = <<>>
  /\ eventCount' = 0
  /\ soundsPlayed' = 0
  /\ connectedAt' = Absent
  /\ recorded' = <<>>
  /\ inbound' = 0
  /\ last' = [op |-> "clear-history", data |-> "", n |-> 0]
  /\ trace' = <<"setEvents", "setEventCount", "setSoundsPlayed">>
  /\ UNCHANGED <<status, muted, volume, toast, timers, audio,
                 plays, origin, es, now, mounted,
                 shown, overlayVars, uptime>>

\* onClick of the Clear History button
ClearHistory ==
  /\ mounted
  /\ events' = <<>>
  /\ eventCount' = 0
  /\ soundsPlayed' = 0
  /\ recorded' = <<>>
  /\ inbound' = 0
  /\ last' = [op |-> "clear-history", data |-> "", n |-> 0]
  /\ trace' = <<"setEvents", "setEventCount", "setSoundsPlayed">>
  /\ UNCHANGED <<status, muted, volume, connectedAt, toast, timers, audio,
                 plays, origin, es, now, mounted,
                 shown, overlayVars, uptime>>

----------------------------------------------------------------------------
(* VideoOverlay: the <video> element, the play-video listener and the       *)
(* element's event handlers.  The element has a src attribute, the resource *)
(* it has selected, and a phase: "empty" (no resource), "ready" (resource,  *)
(* not playing), "pending" (play requested, promise pending), "playing",    *)
(* "paused", "ended" and "failed" (the event is queued, its handler has not *)
(* run yet).  Its tasks are the events queued for it, each with the         *)
(* resource it is about.                                                    *)

\* mutant: the events queued for the previous resource outlive the load
TasksAfterLoadKept(tasks) == tasks

\* el.load() starts the load algorithm, which removes the tasks the element
\* has queued: pending events are discarded
TasksAfterLoad(tasks) == <<>>

\* one statement of a handler applied to the element
Exec(el, op, url) ==
  CASE op = "el.pause" ->
         [el EXCEPT !.phase = IF @ \in {"pending", "playing"} THEN "paused" ELSE @]
    [] op = "el.removeAttribute" -> [el EXCEPT !.src = Absent]
    [] op = "el.load" ->
         [el EXCEPT !.resource = el.src,
                    !.phase = IF el.src = Absent THEN "empty" ELSE "ready",
                    !.tasks = TasksAfterLoad(@)]
    [] op = "el.src" ->
         [el EXCEPT !.src = Some(url), !.resource = Some(url), !.phase = "ready",
                    !.tasks = TasksAfterLoad(@)]
    [] op = "el.muted" -> [el EXCEPT !.muted = TRUE]
    [] op = "el.volume" -> [el EXCEPT !.volume = 100]
    [] op = "el.play" -> [el EXCEPT !.phase = "pending"]
    [] OTHER -> el

RECURSIVE Run(_, _, _)
\* the statements of a handler applied in order
Run(el, steps, url) ==
  IF steps = <<>> THEN el
  ELSE Run(Exec(el, Head(steps), url), Tail(steps), url)

\* mutant: the reset leaves out the reload
ResetStepsNoLoad == <<"el.pause", "el.removeAttribute">>

\* the reset of the element: try { el.pause() } catch {}, then
\* el.removeAttribute("src") and el.load()
ResetSteps == <<"el.pause", "el.removeAttribute", "el.load">>

\* mutant: playVideo assigns the new source without resetting the element
PlayVideoStepsNoReset ==
  <<"el.src", "el.muted", "el.volume", "setVisible", "el.play">>

\* the statements of playVideo up to el.play()
PlayVideoSteps ==
  ResetSteps \o <<"el.src", "el.muted", "el.volume", "setVisible", "el.play">>

\* the statements of playVideo that show the toast
ToastSteps(payload) ==
  IF ShouldToast(payload) THEN <<"setToast", "setTimeout">> ELSE <<>>

\* `${apiBase}${src}`
Resolved(payload) == apiBase \o TemplateString(Get(payload, "src"))

\* mutant: a cue that arrives while a video is pending or playing is dropped
VideoAfterCueIfIdle(el, payload) ==
  IF el.phase \in {"pending", "playing"} THEN el
  ELSE Run(el, PlayVideoSteps, Resolved(payload))

\* the element after playVideo(payload.src, ...)
VideoAfterCue(el, payload) == Run(el, PlayVideoSteps, Resolved(payload))

\* the VideoOverlay is committed: its effect opens the EventSource
VMount ==
  /\ ~vmounted
  /\ ~mounted
  /\ vmounted' = TRUE
  /\ ves' = "connecting"
  /\ last' = [op |-> "video-mount", data |-> "", n |-> 0]
  /\ trace' = <<"new EventSource">>
  /\ UNCHANGED <<dashboardVars, shown, now, video, visible, vtoast, vtimers>>

\* es.onopen = () => undefined
VOnOpen ==
  /\ ves = "connecting"
  /\ ves' = "open"
  /\ last' = [op |-> "video-open", data |-> "", n |-> 0]
  /\ trace' = <<>>
  /\ UNCHANGED <<dashboardVars, shown, now, video, visible, vtoast, vtimers,
                 vmounted>>

\* es.onerror = () => undefined; the browser retries unless the error is fatal
VOnError(fatal) ==
  /\ ves \in {"connecting", "open"}
  /\ ves' = IF fatal THEN "closed" ELSE "connecting"
  /\ last' = [op |-> "video-error", data |-> "", n |-> 0]
  /\ trace' = <<>>
  /\ UNCHANGED <<dashboardVars, shown, now, video, visible, vtoast, vtimers,
                 vmounted>>

\* the "play-video" listener: the catch of its try block is empty
PlayVideoCue(text) ==
  /\ ves = "open"
  /\ last' = [op |-> "play-video", data |-> text, n |-> 0, was |-> video.phase]
  /\ IF CueThrows(text)
     THEN /\ trace' = <<"JSON.parse">>
          /\ UNCHANGED <<video, visible, vtoast, vtimers, shown>>
     ELSE LET payload == JSONParse(text).value
          IN  /\ video' = VideoAfterCue(video, payload)
              /\ visible' = TRUE
              /\ vtoast' = ToastAfterCue(vtoast, payload)
              /\ vtimers' = TimersAfterCue(vtimers, payload)
              /\ shown' = ShownAfterCue(vtimers, payload)
              /\ trace' = <<"JSON.parse">> \o PlayVideoSteps \o ToastSteps(payload)
  /\ UNCHANGED <<dashboardVars, now, ves, vmounted>>

\* the promise of el.play() is fulfilled: playback starts
VideoPlayFulfilled ==
  /\ video.phase = "pending"
  /\ video' = [video EXCEPT !.phase = "playing"]
  /\ last' = [op |-> "video-play-fulfilled", data |-> "", n |-> 0]
  /\ trace' = <<>>
  /\ UNCHANGED <<dashboardVars, shown, now, visible, vtoast, vtimers, ves,
                 vmounted>>

\* the promise of el.play() is rejected: .catch(() => undefined)
VideoPlayRejected ==
  /\ video.phase = "pending"
  /\ video' = [video EXCEPT !.phase = "ready"]
  /\ last' = [op |-> "video-play-rejected", data |-> "", n |-> 0]
  /\ trace' = <<>>
  /\ UNCHANGED <<dashboardVars, shown, now, visible, vtoast, vtimers, ves,
                 vmounted>>

\* playback reaches the end of the resource: an ended event is queued
VideoEnds ==
  /\ video.phase = "playing"
  /\ video' = [video EXCEPT
                 !.phase = "ended",
                 !.tasks = Append(@, [type |-> "ended", resource |-> video.resource])]
  /\ last' = [op |-> "video-ends", data |-> "", n |-> 0]
  /\ trace' = <<>>
  /\ UNCHANGED <<dashboardVars, shown, now, visible, vtoast, vtimers, ves,
                 vmounted>>

\* the resource cannot be fetched or decoded: an error event is queued
VideoFails ==
  /\ video.phase \in {"ready", "pending", "playing"}
  /\ video' = [video EXCEPT
                 !.phase = "failed",
                 !.tasks = Append(@, [type |-> "error", resource |-> video.resource])]
  /\ last' = [op |-> "video-fails", data |-> "", n |-> 0]
  /\ trace' = <<>>
  /\ UNCHANGED <<dashboardVars, shown, now, visible, vtoast, vtimers, ves,
                 vmounted>>

\* onEnded of the <video>, run for the oldest event queued
OnEnded ==
  /\ video.tasks # <<>>
  /\ Head(video.tasks).type = "ended"
  /\ video' = Run([video EXCEPT !.tasks = Tail(@)], ResetSteps, "")
  /\ visible' = FALSE
  /\ last' = [op |-> "on-ended", data |-> "", n |-> 0,
              of |-> Head(video.tasks).resource]
  /\ trace' = ResetSteps \o <<"setVisible">>
  /\ UNCHANGED <<dashboardVars, shown, now, vtoast, vtimers, ves, vmounted>>

\* mutant: onError resets the element and leaves the surface visible
OnVideoErrorStaysVisible ==
  /\ video.tasks # <<>>
  /\ Head(video.tasks).type = "error"
  /\ video' = Run([video EXCEPT !.tasks = Tail(@)], ResetSteps, "")
  /\ last' = [op |-> "on-error", data |-> "", n |-> 0,
              of |-> Head(video.tasks).resource]
  /\ trace' = ResetSteps
  /\ UNCHANGED <<dashboardVars, shown, now, visible, vtoast, vtimers, ves,
                 vmounted>>

\* onError of the <video>, run for the oldest event queued
OnVideoError ==
  /\ video.tasks # <<>>
  /\ Head(video.tasks).type = "error"
  /\ video' = Run([video EXCEPT !.tasks = Tail(@)], ResetSteps, "")
  /\ visible' = FALSE
  /\ last' = [op |-> "on-error", data |-> "", n |-> 0,
              of |-> Head(video.tasks).resource]
  /\ trace' = ResetSteps \o <<"setVisible">>
  /\ UNCHANGED <<dashboardVars, shown, now, vtoast, vtimers, ves, vmounted>>

----------------------------------------------------------------------------
(* The clock *)

\* d milliseconds pass with no callback running; a timer that is due runs
\* before the clock moves past its deadline
Tick(d) ==
  /\ \A j \in DOMAIN timers : now + d <= timers[j]
  /\ \A j \in DOMAIN vtimers : now + d <= vtimers[j]
  /\ now' = now + d
  /\ last' = [op |-> "tick", data |-> "", n |-> d]
  /\ trace' = <<>>
  /\ UNCHANGED <<status, events, eventCount, soundsPlayed, muted, volume,
                 connectedAt, toast, timers, audio, plays, origin, es, mounted,
                 recorded, inbound,
                 shown, overlayVars, uptime>>

\* mutant: the clearance runs as soon as it is scheduled
TimerFireEarly ==
  /\ timers # <<>>
  /\ toast' = Absent
  /\ timers' = Tail(timers)
  /\ last' = [op |-> "toast-timeout", data |-> "", n |-> Head(timers)]
  /\ trace' = <<"setToast">>
  /\ UNCHANGED <<status, events, eventCount, soundsPlayed, muted, volume,
                 connectedAt, audio, plays, origin, es, now, mounted, recorded,
                 inbound, shown, overlayVars, uptime>>

\* the Dashboard's oldest pending clearance is due: () => setToast(null)
TimerFire ==
  /\ timers # <<>>
  /\ now >= Head(timers)
  /\ toast' = Absent
  /\ timers' = Tail(timers)
  /\ last' = [op |-> "toast-timeout", data |-> "", n |-> Head(timers)]
  /\ trace' = <<"setToast">>
  /\ UNCHANGED <<status, events, eventCount, soundsPlayed, muted, volume,
                 connectedAt, audio, plays, origin, es, now, mounted, recorded,
                 inbound, shown, overlayVars, uptime>>

\* the VideoOverlay's oldest pending clearance is due: () => setToast(null)
VTimerFire ==
  /\ vtimers # <<>>
  /\ now >= Head(vtimers)
  /\ vtoast' = Absent
  /\ vtimers' = Tail(vtimers)
  /\ last' = [op |-> "video-toast-timeout", data |-> "", n |-> Head(vtimers)]
  /\ trace' = <<"setToast">>
  /\ UNCHANGED <<dashboardVars, shown, now, video, visible, ves, vmounted>>

----------------------------------------------------------------------------
(* UptimeClock: formatUptime and the interval that shows it.  Strings are   *)
(* sequences of characters here.                                            *)

\* the character of a decimal digit
DigitChar(d) == <<"0", "1", "2", "3", "4", "5", "6", "7", "8", "9">>[d + 1]

RECURSIVE NumberToString(_)
\* n.toString() of a non-negative integer
NumberToString(n) ==
  IF n < 10 THEN <<DigitChar(n)>>
  ELSE Append(NumberToString(n \div 10), DigitChar(n % 10))

\* s.padStart(2, "0")
PadStart2(s) == IF Len(s) >= 2 THEN s ELSE <<"0">> \o s

\* mutant: the minutes are not reduced modulo the hour
FormatUptimeTotalMinutes(at, t) ==
  IF at = Absent THEN <<"0", "0", ":", "0", "0", ":", "0", "0">>
  ELSE LET diff == t - at[1]
           hours == diff \div (1000 * 60 * 60)
           minutes == diff \div (1000 * 60)
           seconds == (diff % (1000 * 60)) \div 1000
       IN  PadStart2(NumberToString(hours)) \o <<":">>
             \o PadStart2(NumberToString(minutes)) \o <<":">>
             \o PadStart2(NumberToString(seconds))

\* formatUptime(), with connectedAt = at and Date.now() = t
FormatUptime(at, t) ==
  IF at = Absent THEN <<"0", "0", ":", "0", "0", ":", "0", "0">>
  ELSE LET diff == t - at[1]
           hours == diff \div (1000 * 60 * 60)
           minutes == (diff % (1000 * 60 * 60)) \div (1000 * 60)
           seconds == (diff % (1000 * 60)) \div 1000
       IN  PadStart2(NumberToString(hours)) \o <<":">>
             \o PadStart2(NumberToString(minutes)) \o <<":">>
             \o PadStart2(NumberToString(seconds))

\* the callback of setInterval: setUptime(formatUptime())
UptimeTick ==
  /\ mounted
  /\ uptime' = FormatUptime(connectedAt, now)
  /\ last' = [op |-> "uptime-tick", data |-> "", n |-> 0]
  /\ trace' = <<"setUptime">>
  /\ UNCHANGED <<status, events, eventCount, soundsPlayed, muted, volume,
                 connectedAt, toast, timers, audio, plays, origin, es, now,
                 mounted, recorded, inbound, shown, overlayVars>>

----------------------------------------------------------------------------
(* Specifications *)

\* one more callback, while the exploration allows it
Count(limit) == calls < limit /\ calls' = calls + 1

\* every behaviour of the Dashboard of at most MaxCalls callbacks; no
\* callback reads the clock but to stamp a record, and here they all run
\* within one millisecond
Next ==
  \/ Mount /\ Count(MaxCalls)
  \/ \E i \in DOMAIN es : OnOpen(i) /\ Count(MaxCalls)
  \/ \E i \in DOMAIN es : OnConnected(i) /\ Count(MaxCalls)
  \/ \E i \in DOMAIN es, fatal \in BOOLEAN : OnError(i, fatal) /\ Count(MaxCalls)
  \/ \E i \in DOMAIN es, text \in MessageData : PlaySound(i, text) /\ Count(MaxCalls)
  \/ \E k \in DOMAIN plays : PlayRejected(k) /\ Count(MaxCalls)
  \/ \E k \in DOMAIN plays : PlayFulfilled(k) /\ Count(MaxCalls)
  \/ ToggleMute /\ Count(MaxCalls)
  \/ \E v \in Volumes : ChangeVolume(v) /\ Count(MaxCalls)
  \/ ClearHistory /\ Count(MaxCalls)

Spec == Init /\ [][Next]_vars

\* the history is being filled: fewer than BurstLen records counted, and
\* none of the MaxTail free steps taken yet
Filling == calls = 0 /\ eventCount < BurstLen

\* the free steps have begun, or may begin: TailFrom records are counted
Free == calls > 0 \/ eventCount >= TailFrom

\* the cues of the free steps: one with attribution, one that is not JSON
TailData == {TextFull, TextNotJSON}

\* a long run: while the history is filling, the server opens the connection
\* and sends one well-formed cue per millisecond and every play succeeds;
\* at any point from TailFrom records on, any MaxTail steps follow.
NextHistory ==
  \/ Filling /\ Mount /\ UNCHANGED calls
  \/ Filling /\ OnOpen(Len(es)) /\ UNCHANGED calls
  \/ Filling /\ plays = <<>> /\ last.op # "tick" /\ Tick(1) /\ UNCHANGED calls
  \/ Filling /\ last.op = "tick" /\ PlaySound(Len(es), TextPlain) /\ UNCHANGED calls
  \/ Filling /\ PlayFulfilled(1) /\ UNCHANGED calls
  \/ Free /\ Tick(1) /\ Count(MaxTail)
  \/ Free /\ \E i \in DOMAIN es : OnOpen(i) /\ Count(MaxTail)
  \/ Free /\ \E i \in DOMAIN es : OnConnected(i) /\ Count(MaxTail)
  \/ Free /\ \E i \in DOMAIN es, fatal \in BOOLEAN : OnError(i, fatal) /\ Count(MaxTail)
  \/ Free /\ \E i \in DOMAIN es, text \in TailData : PlaySound(i, text) /\ Count(MaxTail)
  \/ Free /\ \E k \in DOMAIN plays : PlayRejected(k) /\ Count(MaxTail)
  \/ Free /\ \E k \in DOMAIN plays : PlayFulfilled(k) /\ Count(MaxTail)
  \/ Free /\ ToggleMute /\ Count(MaxTail)
  \/ Free /\ \E v \in Volumes : ChangeVolume(v) /\ Count(MaxTail)
  \/ Free /\ ClearHistory /\ Count(MaxTail)

SpecHistory == Init /\ [][NextHistory]_vars

\* the cues of the timed runs: two with attribution, from different
\* viewers, and one whose attribution is incomplete
ToastData == {TextFull, TextOther, TextEmptyUser}

VideoToastData == {VideoFull, VideoOther, VideoEmptyReward}

\* the clock advances by a millisecond or by just under the toast delay
TickSteps == {1, ToastDelay - 1}

\* the toasts of both components over time: the component that is mounted
\* connects and receives cues while the clock advances and clearances run
NextToast ==
  \/ Mount /\ Count(MaxToastCalls)
  \/ \E i \in DOMAIN es : OnOpen(i) /\ Count(MaxToastCalls)
  \/ \E i \in DOMAIN es, text \in ToastData : PlaySound(i, text) /\ Count(MaxToastCalls)
  \/ ToggleMute /\ Count(MaxToastCalls)
  \/ TimerFire /\ Count(MaxToastCalls)
  \/ VMount /\ Count(MaxToastCalls)
  \/ VOnOpen /\ Count(MaxToastCalls)
  \/ \E text \in VideoToastData : PlayVideoCue(text) /\ Count(MaxToastCalls)
  \/ VTimerFire /\ Count(MaxToastCalls)
  \/ \E d \in TickSteps : Tick(d) /\ Count(MaxToastCalls)

SpecToast == Init /\ [][NextToast]_vars

\* the deadlines that are pending, of whichever component is mounted
Deadlines == timers \o vtimers

\* time passes until the next pending clearance is due
Advance ==
  /\ Deadlines # <<>>
  /\ now < Head(Deadlines)
  /\ Tick(Head(Deadlines) - now)

\* the cues of the fair runs
FairData == {TextFull, TextEmptyUser}

\* the toasts when time cannot stop: at most MaxFairCalls callbacks and
\* clock steps of the environment, among them the cues, a change of the mute
\* flag that closes the connection and a fatal error of the transport; the
\* clock goes on to every pending deadline and a clearance that is due runs
NextToastFair ==
  \/ Mount /\ Count(MaxFairCalls)
  \/ \E i \in DOMAIN es : OnOpen(i) /\ Count(MaxFairCalls)
  \/ \E i \in DOMAIN es : OnError(i, TRUE) /\ Count(MaxFairCalls)
  \/ \E i \in DOMAIN es, text \in FairData : PlaySound(i, text) /\ Count(MaxFairCalls)
  \/ ToggleMute /\ Count(MaxFairCalls)
  \/ VMount /\ Count(MaxFairCalls)
  \/ VOnOpen /\ Count(MaxFairCalls)
  \/ VOnError(TRUE) /\ Count(MaxFairCalls)
  \/ PlayVideoCue(VideoFull) /\ Count(MaxFairCalls)
  \/ \E d \in TickSteps : Tick(d) /\ Count(MaxFairCalls)
  \/ Advance /\ UNCHANGED calls
  \/ TimerFire /\ UNCHANGED calls
  \/ VTimerFire /\ UNCHANGED calls

\* timers run when they are due and time does not stop
SpecToastFair ==
  /\ Init
  /\ [][NextToastFair]_vars
  /\ WF_vars(Advance /\ UNCHANGED calls)
  /\ WF_vars(TimerFire /\ UNCHANGED calls)
  /\ WF_vars(VTimerFire /\ UNCHANGED calls)

\* the cues of the video runs
VideoData == {VideoFull, VideoPlain, TextEmptyObject, TextNull, TextNotJSON}

\* every behaviour of the VideoOverlay of at most MaxVideoCalls steps, within
\* one millisecond
NextVideo ==
  \/ VMount /\ Count(MaxVideoCalls)
  \/ VOnOpen /\ Count(MaxVideoCalls)
  \/ \E fatal \in BOOLEAN : VOnError(fatal) /\ Count(MaxVideoCalls)
  \/ \E text \in VideoData : PlayVideoCue(text) /\ Count(MaxVideoCalls)
  \/ VideoPlayFulfilled /\ Count(MaxVideoCalls)
  \/ VideoPlayRejected /\ Count(MaxVideoCalls)
  \/ VideoEnds /\ Count(MaxVideoCalls)
  \/ VideoFails /\ Count(MaxVideoCalls)
  \/ OnEnded /\ Count(MaxVideoCalls)
  \/ OnVideoError /\ Count(MaxVideoCalls)

SpecVideo == Init /\ [][NextVideo]_vars

\* the clock has moved since the last callback
Ticked == last.op \in {"construct", "tick"}

\* every behaviour of the Dashboard of at most MaxClockCalls callbacks in
\* which no two callbacks run within the same millisecond
NextClock ==
  \/ ~Ticked /\ Tick(1) /\ UNCHANGED calls
  \/ Ticked /\ Mount /\ Count(MaxClockCalls)
  \/ Ticked /\ \E i \in DOMAIN es : OnOpen(i) /\ Count(MaxClockCalls)
  \/ Ticked /\ \E i \in DOMAIN es : OnConnected(i) /\ Count(MaxClockCalls)
  \/ Ticked /\ \E i \in DOMAIN es, fatal \in BOOLEAN : OnError(i, fatal) /\ Count(MaxClockCalls)
  \/ Ticked /\ \E i \in DOMAIN es, text \in MessageData : PlaySound(i, text) /\ Count(MaxClockCalls)
  \/ Ticked /\ \E k \in DOMAIN plays : PlayRejected(k) /\ Count(MaxClockCalls)
  \/ Ticked /\ \E k \in DOMAIN plays : PlayFulfilled(k) /\ Count(MaxClockCalls)
  \/ Ticked /\ ToggleMute /\ Count(MaxClockCalls)
  \/ Ticked /\ \E v \in Volumes : ChangeVolume(v) /\ Count(MaxClockCalls)
  \/ Ticked /\ ClearHistory /\ Count(MaxClockCalls)

SpecClock == Init /\ [][NextClock]_vars

\* the instants at which the connection opened, in the uptime runs
Starts == {0, 1234}

\* the time since then: on either side of a second, a minute, an hour, ten
\* hours and a hundred hours
Elapsed == {0, 999, 1000, 59999, 60000, 3599999, 3600000, 35999999,
            36000000, 359999999, 360000000}

\* the time that passes between two callbacks of the uptime runs
UptimeSteps == {1, 1000}

\* the Dashboard some time after it was mounted at instant 0: either its
\* connection opened at an instant of Starts and stayed open, or it has not
\* opened yet
InitUptime ==
  /\ \E s \in Starts, opened \in BOOLEAN :
       LET connecting == [id |-> ToString(0), type |-> "system", timestamp |-> 0,
                          data |-> Absent, description |-> "Connecting to server..."]
           connection == [id |-> ToString(s), type |-> "connection", timestamp |-> s,
                          data |-> Absent, description |-> "Connected to server"]
       IN  /\ status = IF opened THEN "connected" ELSE "connecting"
           /\ connectedAt = IF opened THEN Some(s) ELSE Absent
           /\ recorded = IF opened THEN <<connecting, connection>> ELSE <<connecting>>
           /\ events = IF opened THEN <<connection, connecting>> ELSE <<connecting>>
           /\ eventCount = IF opened THEN 2 ELSE 1
           /\ es = <<[NewEventSource(FALSE, DefaultVolume)
                        EXCEPT !.state = IF opened THEN "open" ELSE "connecting"]>>
           /\ last = IF opened THEN [op |-> "open", data |-> "", n |-> 1]
                     ELSE [op |-> "mount", data |-> "", n |-> 0]
           /\ \E e \in Elapsed : now = s + e
  /\ mounted = TRUE
  /\ audio = [ref |-> "element", created |-> 0, volume |-> 100, src |-> ""]
  /\ soundsPlayed = 0
  /\ muted = FALSE
  /\ volume = DefaultVolume
  /\ toast = Absent
  /\ timers = <<>>
  /\ plays = <<>>
  /\ origin = <<>>
  /\ uptime = <<"0", "0", ":", "0", "0", ":", "0", "0">>
  /\ trace = <<>>
  /\ inbound = 0
  /\ calls = 0
  /\ shown = Absent
  /\ video = [src |-> Absent, resource |-> Absent, phase |-> "empty",
              muted |-> TRUE, volume |-> 100, tasks |-> <<>>]
  /\ visible = FALSE
  /\ vtoast = Absent
  /\ vtimers = <<>>
  /\ ves = "none"
  /\ vmounted = FALSE

\* the uptime shown by the Dashboard: the clock advances, the interval
\* fires, and the connection opens or is confirmed by the server
NextUptime ==
  \/ \E i \in DOMAIN es : OnOpen(i) /\ Count(MaxUptimeCalls)
  \/ \E i \in DOMAIN es : OnConnected(i) /\ Count(MaxUptimeCalls)
  \/ \E d \in UptimeSteps : Tick(d) /\ Count(MaxUptimeCalls)
  \/ UptimeTick /\ Count(MaxUptimeCalls)

SpecUptime == InitUptime /\ [][NextUptime]_vars

----------------------------------------------------------------------------
(* Vocabulary of the properties *)

\* the step added records of exactly these types, in this order, on top of
\* the log: the count grew by their number, they are the newest entries, and
\* below them the previous entries follow in their previous order, the
\* oldest ones dropped beyond HistoryCap
AddedExactly(types) ==
  LET n == Len(types)
  IN  /\ eventCount' = eventCount + n
      /\ Len(events') = Min(Len(events) + n, HistoryCap)
      /\ \A j \in 1..n : events'[j].type = types[n - j + 1]
      /\ \A j \in (n + 1)..Len(events') : events'[j] = events[j - n]

Calls(tr, name) == \E j \in DOMAIN tr : tr[j] = name

\* the description of the record added before the newest one
PreviousDescription ==
  IF Len(recorded) >= 2 THEN recorded[Len(recorded) - 1].description ELSE ""

----------------------------------------------------------------------------
(* C1: in every reachable state of the Dashboard the history log holds at   *)
(* most 100 records and eventCount is at least the length of the log.       *)
HistoryBounded ==
  /\ Len(events) <= 100
  /\ eventCount >= Len(events)

\* the log is full and records have been dropped from it
HistoryOverflowed == Len(events) = 100 /\ eventCount > 100

(* C2: after k addEvent calls since the last clearHistory (or since start)  *)
(* the log is exactly the min(k, 100) most recently recorded records,       *)
(* newest first: the latest at index 0 (here 1), the survivors in their     *)
(* order, the oldest dropped first.                                         *)
HistoryNewestFirst ==
  LET k == Len(recorded)
      n == Min(k, 100)
  IN  /\ Len(events) = n
      /\ \A j \in 1..n : events[j] = recorded[k - j + 1]

\* more than 100 records were added, with different ids, and the oldest
\* record ("Connecting to server...") is gone from the log
HistoryDroppedOldest ==
  /\ Len(recorded) > 100
  /\ events[1].id # events[100].id
  /\ recorded[1].type = "system"
  /\ \A j \in DOMAIN events : events[j].type # "system"

\* the records of `recorded` that answer no server event: the client adds
\* them for an effect start or cleanup, a transport open or error, and a
\* rejected play
IsOwnRecord(r) ==
  \/ r.type = "system"
  \/ r.type = "connection" /\ r.description = "Connected to server"
  \/ r.type = "error" /\ r.description # "Failed to parse sound event"

OwnRecords == Cardinality({j \in DOMAIN recorded : IsOwnRecord(recorded[j])})

SomeOpen == \E i \in DOMAIN es : es[i].state = "open"

ClearedAfterFilling == last.op = "clear-history" /\ calls >= 1 /\ eventCount = 0

----------------------------------------------------------------------------
StatusEdges ==
  {<<"disconnected", "connecting">>, <<"connecting", "connected">>,
   <<"connected", "connecting">>, <<"connecting", "connecting">>}

(* C4 as claimed: every setStatus of a handler follows one of the edges     *)
(* Disconnected->Connecting, Connecting->Connected, Connected->Connecting,  *)
(* Connecting->Connecting.                                                  *)
StatusFollowsEdges ==
  [][Calls(trace', "setStatus") => <<status, status'>> \in StatusEdges]_vars

(* C4 as amended: every setStatus of a handler, and every change of the     *)
(* status, follows one of those edges or Connected->Connected; no edge      *)
(* leads into Disconnected.                                                 *)
StatusFollowsEdgesOrStaysConnected ==
  [][(Calls(trace', "setStatus") \/ status' # status)
       => <<status, status'>> \in StatusEdges \cup {<<"connected", "connected">>}]_vars

\* a "connected" event was handled right after the transport opened: the
\* status was Connected and was set to Connected
ConnectedWhileConnected ==
  /\ last.op = "connected"
  /\ status = "connected"
  /\ PreviousDescription = "Connected to server"

----------------------------------------------------------------------------
RecordedTypes == [j \in DOMAIN recorded |-> recorded[j].type]

\* the run so far is: effect start, transport open, transport error
OpenThenError ==
  /\ calls = 3
  /\ last.op = "error"
  /\ Len(recorded) = 3
  /\ recorded[2].description = "Connected to server"

(* C5: opening the connection sets the status to Connecting; the transport  *)
(* then reporting open, with no "connected" event, sets it to Connected and *)
(* adds exactly one "connection" record; a transport error after that sets  *)
(* it to Connecting and adds exactly one "error" record.                    *)
StatusScenario ==
  /\ (last.op = "mount" => status = "connecting" /\ RecordedTypes = <<"system">>)
  /\ (calls = 2 /\ last.op = "open"
        => /\ status = "connected"
           /\ RecordedTypes = <<"system", "connection">>
           /\ eventCount = 2
           /\ events[1].type = "connection")
  /\ (OpenThenError
        => /\ status = "connecting"
           /\ RecordedTypes = <<"system", "connection", "error">>
           /\ eventCount = 3
           /\ events[1].type = "error"
           /\ events[2].type = "connection")

----------------------------------------------------------------------------
ConnectionRecordsAdded ==
  IF eventCount' = eventCount + 1 /\ events'[1].type = "connection" THEN 1 ELSE 0

BecameConnected == status = "connecting" /\ status' = "connected"

(* C6 as claimed: the number of "connection" records added equals the       *)
(* number of changes of the status from Connecting to Connected: a step     *)
(* adds one exactly when it makes that change.                              *)
ConnectionRecordPerTransition ==
  [][ConnectionRecordsAdded = (IF BecameConnected THEN 1 ELSE 0)]_vars

(* C6 as amended: one "connection" record is added by every transport open  *)
(* and by every "connected" event, and by nothing else; so every change     *)
(* from Connecting to Connected adds exactly one, and a "connected" event   *)
(* handled while Connected adds one more without a change.                  *)
ConnectionRecordPerOpenOrConnected ==
  [][/\ ConnectionRecordsAdded = (IF last'.op \in {"open", "connected"} THEN 1 ELSE 0)
     /\ (last'.op \in {"open", "connected"} => AddedExactly(<<"connection">>))
     /\ (BecameConnected => AddedExactly(<<"connection">>))]_vars

\* two "connection" records in a row, the second added while Connected
TwoConnectionRecords ==
  /\ last.op = "connected"
  /\ Len(recorded) >= 2
  /\ recorded[Len(recorded)].type = "connection"
  /\ recorded[Len(recorded) - 1].type = "connection"
  /\ status = "connected"

----------------------------------------------------------------------------
(* C7: on every transport error, from any status, the status becomes        *)
(* Connecting, exactly one "error" record is added, and the client neither  *)
(* closes nor reopens the transport.                                        *)
ErrorKeepsConnecting ==
  [][last'.op = "error"
       => /\ status' = "connecting"
          /\ AddedExactly(<<"error">>)
          /\ ~Calls(trace', "es.close")
          /\ ~Calls(trace', "new EventSource")
          /\ Len(es') = Len(es)
          /\ \A j \in DOMAIN es : es'[j].state = "closed" => j = last'.n \/ es[j].state = "closed"]_vars

\* an error was reported while the status was Connected, the transport
\* retrying
ErrorWhileConnected ==
  /\ last.op = "error"
  /\ last.data = "retry"
  /\ PreviousDescription = "Connected to server"
  /\ status = "connecting"
  /\ es[last.n].state = "connecting"

----------------------------------------------------------------------------
(* C8: a play-sound event whose payload is not JSON, or is JSON violating   *)
(* the schema, adds exactly one "error" record, no "sound" record, does     *)
(* not increment soundsPlayed, attempts no play and sets no toast.          *)
MalformedCueOnlyLogsError ==
  [][(last'.op = "play-sound" /\ last'.data \in SchemaViolating \cup NotJSON)
       => /\ AddedExactly(<<"error">>)
          /\ soundsPlayed' = soundsPlayed
          /\ ~Calls(trace', "audio.play")
          /\ plays' = plays
          /\ toast' = toast
          /\ timers' = timers]_vars

----------------------------------------------------------------------------
(* C9: whenever the muted flag of the Dashboard is true, handling a         *)
(* play-sound cue issues no audio play request, whatever the volume and     *)
(* however mute toggles, volume changes and cues interleave.                *)
MutedNeverPlays ==
  [][(last'.op = "play-sound" /\ muted')
       => /\ ~Calls(trace', "audio.play")
          /\ plays' = plays
          /\ audio' = audio]_vars

\* a well-formed cue was handled while muted, after a change of the volume
MutedCueHandled ==
  /\ last.op = "play-sound"
  /\ last.data \in WellFormed
  /\ muted
  /\ volume # DefaultVolume
  /\ events[1].type = "sound"

----------------------------------------------------------------------------
(* C10: a well-formed play-sound cue adds exactly one "sound" record at     *)
(* the moment it is handled, whether the client is muted or not.            *)
WellFormedCueAddsSound ==
  [][(last'.op = "play-sound" /\ last'.data \in WellFormed)
       => AddedExactly(<<"sound">>)]_vars

\* a cue was handled while muted, and the play of an earlier cue, handled
\* while not muted, is still pending
CueRecordedMutedAndNot ==
  /\ last.op = "play-sound"
  /\ last.data \in WellFormed
  /\ muted
  /\ plays # <<>>
  /\ events[1].type = "sound"

----------------------------------------------------------------------------
(* C11: when the play request of a cue is rejected, exactly one "error"     *)
(* record naming that cue's file is added and nothing else changes: the     *)
(* status, the counters of sounds, the settings, the toast, its clearances, *)
(* the audio slot and the transports stay as they were, so later cues are   *)
(* handled as before; the rejection of an earlier cue may be reported after *)
(* a later cue has been handled.                                            *)
PlayRejectionOnlyLogs ==
  [][(last'.op = "play-rejected")
       => /\ AddedExactly(<<"error">>)
          /\ events'[1].description = "Failed to play: " \o last'.data
          /\ Len(plays') = Len(plays) - 1
          /\ UNCHANGED <<status, soundsPlayed, muted, volume, connectedAt,
                         toast, timers, audio, es, mounted>>]_vars

\* two cues were handled, the play of the later one succeeded, and then the
\* rejection of the earlier one was reported
LaterCueBeforeRejection ==
  /\ last.op = "play-rejected"
  /\ plays = <<>>
  /\ Len(recorded) >= 3
  /\ recorded[Len(recorded)].description = "Failed to play: a.mp3"
  /\ recorded[Len(recorded) - 1].description = "Playing: b.mp3"
  /\ recorded[Len(recorded) - 2].description = "Playing: a.mp3"

----------------------------------------------------------------------------
(* C19: clearHistory empties the log and sets eventCount and soundsPlayed   *)
(* to 0, and leaves the connection status, connectedAt, the transports, the *)
(* audio slot with its pending plays, muted, volume, the toast and the      *)
(* pending clearances as they were.                                         *)
ClearHistoryOnlyResets ==
  [][(last'.op = "clear-history")
       => /\ events' = <<>>
          /\ eventCount' = 0
          /\ soundsPlayed' = 0
          /\ UNCHANGED <<status, connectedAt, es, audio, plays, muted, volume,
                         toast, timers>>]_vars

\* the history was cleared while connected, with a toast showing, its
\* clearance scheduled and a play pending
ClearedWhileBusy ==
  /\ last.op = "clear-history"
  /\ events = <<>>
  /\ eventCount = 0
  /\ soundsPlayed = 0
  /\ status = "connected"
  /\ connectedAt # Absent
  /\ toast # Absent
  /\ timers # <<>>
  /\ plays # <<>>

----------------------------------------------------------------------------
(* Vocabulary of the toast properties *)

\* the toast that shows the attribution recorded in `shown`
ShownToast ==
  Some([username |-> shown[1].username, rewardName |-> shown[1].rewardName])

\* the cue of the step parsed into a payload, and that payload
CueParsed == ~CueThrows(last'.data)

CuePayload == JSONParse(last'.data).value

\* the toast the payload asks for
CueToast ==
  Some([username |-> Get(CuePayload, "username")[1],
        rewardName |-> Get(CuePayload, "rewardName")[1]])

\* the last qualifying cue found no clearance pending: its toast t, with the
\* pending clearances ts, shows until the delay has passed, the clock does
\* not pass the deadline while the clearance is outstanding, and once the
\* clearance has run the toast is null
ToastHeld(t, ts) ==
  (shown # Absent /\ shown[1].alone)
    => /\ (now < shown[1].at + ToastDelay) => (t = ShownToast)
       /\ (ts # <<>>) => (ts = <<shown[1].at + ToastDelay>> /\ now <= ts[1])
       /\ (ts = <<>>) => (t = Absent /\ now >= shown[1].at + ToastDelay)

(* C16: for a qualifying cue handled at time t, with no further qualifying  *)
(* cue and no earlier clearance pending, the toast of the component shows   *)
(* that cue's username and rewardName at every time in [t, t+4999] and is   *)
(* null once the clearance scheduled for t+5000 has run, which happens at   *)
(* clock t+5000.                                                           *)
ToastShownForDelay ==
  /\ mounted => ToastHeld(toast, timers)
  /\ vmounted => ToastHeld(vtoast, vtimers)

\* the only pending clearance has run, 5000 ms after the cue that set the
\* toast, and the toast is null
ToastClearedOnTime ==
  /\ last.op = "toast-timeout"
  /\ shown # Absent
  /\ shown[1].alone
  /\ now = shown[1].at + 5000
  /\ timers = <<>>
  /\ toast = Absent

----------------------------------------------------------------------------
(* C17: a qualifying cue replaces the toast at once and appends its own     *)
(* clearance to the pending ones; a clearance runs at its own deadline and  *)
(* sets the toast to null whichever cue set it, so the clearance of a first *)
(* cue at t1 removes the toast of a second cue at t2 < t1+5000 before       *)
(* t2+5000; pending clearances only ever leave by running.                  *)
ClearanceNeverCancelled ==
  [][/\ (last'.op = "play-sound" /\ CueParsed /\ ShouldToast(CuePayload))
          => (toast' = CueToast /\ timers' = Append(timers, now + 5000))
     /\ (last'.op = "play-video" /\ CueParsed /\ ShouldToast(CuePayload))
          => (vtoast' = CueToast /\ vtimers' = Append(vtimers, now + 5000))
     /\ (last'.op = "toast-timeout")
          => (toast' = Absent /\ now = Head(timers))
     /\ (last'.op = "video-toast-timeout")
          => (vtoast' = Absent /\ now = Head(vtimers))
     /\ (Len(timers') < Len(timers))
          => (last'.op = "toast-timeout" /\ timers' = Tail(timers))
     /\ (Len(vtimers') < Len(vtimers))
          => (last'.op = "video-toast-timeout" /\ vtimers' = Tail(vtimers))]_vars

\* the clearance of an earlier cue has run and removed the toast of the
\* second cue, whose own clearance is still pending
ReplacementClearedEarly ==
  /\ last.op = "toast-timeout"
  /\ toast = Absent
  /\ shown # Absent
  /\ ~shown[1].alone
  /\ shown[1].username = "bob"
  /\ now < shown[1].at + 5000
  /\ timers = <<shown[1].at + 5000>>

----------------------------------------------------------------------------
\* the payload has both properties, whatever their values
CarriesBoth(payload) ==
  Get(payload, "username") # Absent /\ Get(payload, "rewardName") # Absent

\* the payload has both properties and neither is the empty string
CarriesBothNonEmpty(payload) ==
  /\ CarriesBoth(payload)
  /\ Get(payload, "username")[1] # ""
  /\ Get(payload, "rewardName")[1] # ""

\* the step of a cue sets the toast and schedules its clearance if qualifies
\* holds, and else leaves toast and clearances as they were
ToastIff(qualifies) ==
  /\ (last'.op = "play-sound")
       => IF qualifies
          THEN toast' = CueToast /\ timers' = Append(timers, now + 5000)
          ELSE UNCHANGED <<toast, timers>>
  /\ (last'.op = "play-video")
       => IF qualifies
          THEN vtoast' = CueToast /\ vtimers' = Append(vtimers, now + 5000)
          ELSE UNCHANGED <<vtoast, vtimers>>

----------------------------------------------------------------------------
(* Vocabulary of the video properties *)

\* the position of the first call of that name in tr, 0 when there is none
Position(tr, name) ==
  IF Calls(tr, name)
  THEN CHOOSE j \in DOMAIN tr : tr[j] = name /\ \A i \in 1..(j - 1) : tr[i] # name
  ELSE 0

\* the calls of tr are made in this order: pause, clearing of the source
\* attribute, load
ResetInOrder(tr) ==
  /\ 0 < Position(tr, "el.pause")
  /\ Position(tr, "el.pause") < Position(tr, "el.removeAttribute")
  /\ Position(tr, "el.removeAttribute") < Position(tr, "el.load")

\* the element has no source: no src attribute and no selected resource
NoSource(el) == el.src = Absent /\ el.resource = Absent /\ el.phase = "empty"

(* C12: every play() call on the video element is preceded, within the      *)
(* handling of the same cue and in this order, by pause, the clearing of    *)
(* the src attribute and load, which leave the element without a source,    *)
(* and only then by the assignment of the new source; this holds for the    *)
(* first cue as for any later one.                                          *)
ResetBeforePlay ==
  [][Calls(trace', "el.play")
       => /\ ResetInOrder(trace')
          /\ Position(trace', "el.load") < Position(trace', "el.src")
          /\ Position(trace', "el.src") < Position(trace', "el.play")
          /\ NoSource(Run(video, SubSeq(trace', 1, Position(trace', "el.src") - 1), ""))]_vars

\* the first cue ever was handled: its play is requested
FirstCuePlayed ==
  /\ last.op = "play-video"
  /\ last.was = "empty"
  /\ calls = 3
  /\ Calls(trace, "el.play")
  /\ video.phase = "pending"

----------------------------------------------------------------------------
(* C13: when the video element reports the end of playback or an error, the *)
(* handler pauses it, clears its src attribute, reloads it and sets visible *)
(* to false; afterwards the element has no source and visible is false.     *)
EndOrErrorResets ==
  [][(last'.op \in {"on-ended", "on-error"})
       => /\ ResetInOrder(trace')
          /\ NoSource(video')
          /\ visible' = FALSE]_vars

\* a video played to its end and the handler has run
VideoEndedAndHidden ==
  /\ last.op = "on-ended"
  /\ video.src = Absent
  /\ ~visible

----------------------------------------------------------------------------
(* C14, as stated: when the play request of a video is rejected, the        *)
(* failure is added to the history as a record and the video surface is     *)
(* left not visible.                                                       *)
VideoRejectionLoggedAndHidden ==
  [][(last'.op = "video-play-rejected")
       => /\ visible' = FALSE
          /\ Len(events') = Len(events) + 1]_vars

----------------------------------------------------------------------------
\* the source a cue asks for, resolved against the base URL
SourceOf(text) ==
  CASE text = VideoFull -> "http://localhost:8787/v/a.mp4"
    [] text = VideoPlain -> "http://localhost:8787/v/b.mp4"

(* C15: right after a play-video cue with a resource path is handled,       *)
(* whatever the element was doing before (nothing, playing, ended, failed,  *)
(* play pending), its source is that cue's path resolved against the base   *)
(* URL, its play is requested and the surface is visible: the cue is never  *)
(* held back behind another.                                                *)
LatestCueWins ==
  [][(last'.op = "play-video" /\ last'.data \in {VideoFull, VideoPlain})
       => /\ video'.src = Some(SourceOf(last'.data))
          /\ video'.resource = Some(SourceOf(last'.data))
          /\ video'.phase = "pending"
          /\ visible' = TRUE]_vars

\* a cue was handled while the video of an earlier cue was playing
PreemptedWhilePlaying ==
  /\ last.op = "play-video"
  /\ last.was = "playing"
  /\ last.data = VideoPlain
  /\ video.src = Some("http://localhost:8787/v/b.mp4")
  /\ video.phase = "pending"
  /\ visible

----------------------------------------------------------------------------
(* C20, as stated: the ids of the records in the history log are pairwise   *)
(* distinct, also when two records are created within the same clock        *)
(* millisecond (and a later record has the greater id).                     *)
IdsPairwiseDistinct ==
  \A i, j \in DOMAIN events : (i # j) => (events[i].id # events[j].id)

----------------------------------------------------------------------------
(* Vocabulary of the connection properties *)

\* the step ran the cleanup of the connection effect and the effect again
EffectReran == last'.op \in {"toggle-mute", "change-volume"}

\* the step ran a listener of an EventSource, es[last'.n]
ListenerRan == last'.op \in {"open", "connected", "error", "play-sound"}

\* the descriptions of the records the step added, oldest first
AddedDescriptions ==
  [j \in 1..(Len(recorded') - Len(recorded)) |->
     recorded'[Len(recorded) + j].description]

\* the cleanup closes every EventSource there is and adds exactly one
\* "Disconnected from server" record; listeners only run for the newest
\* EventSource, and only while it is not closed
CleanupClosesForGood ==
  /\ EffectReran
       => /\ \A i \in DOMAIN es : es'[i].state = "closed"
          /\ AddedDescriptions
               = <<"Disconnected from server", "Connecting to server...">>
  /\ ListenerRan
       => (last'.n = Len(es) /\ es[last'.n].state # "closed")

(* C21, as stated: the effect cleanup closes the transport and adds exactly *)
(* one "Disconnected from server" record; after the close no listener of    *)
(* that connection runs again, and no further record originates from that   *)
(* connection's handlers, the catch of a play they requested included.      *)
NoRecordAfterClose ==
  [][/\ CleanupClosesForGood
     /\ (last'.op = "play-rejected")
          => (last'.from = Len(es))]_vars

(* C21, amended: the effect cleanup closes the transport and adds exactly   *)
(* one "Disconnected from server" record; after the close no connected,     *)
(* play-sound, open or error listener of that connection runs again.  (The  *)
(* rejection of a play requested before the close may still add its         *)
(* "error" record after it.)                                                *)
NoListenerAfterClose == [][CleanupClosesForGood]_vars

\* the play a cue requested was rejected after the connection that
\* delivered the cue had been closed by the cleanup
RejectionAfterClose ==
  /\ last.op = "play-rejected"
  /\ last.from < Len(es)
  /\ es[last.from].state = "closed"
  /\ events[1].description = "Failed to play: " \o last.data

----------------------------------------------------------------------------
(* C22, as stated: soundsPlayed counts the sounds successfully played: a    *)
(* cue handled by a listener that captured muted = true does not increment  *)
(* it, and it grows only when a play request succeeds.                      *)
SoundsPlayedCountsSuccesses ==
  [][/\ (last'.op = "play-sound" /\ es[last'.n].muted)
          => (soundsPlayed' = soundsPlayed)
     /\ (soundsPlayed' > soundsPlayed)
          => (last'.op = "play-fulfilled")]_vars

----------------------------------------------------------------------------
\* the number of "sound" records added since the history was last cleared
SoundRecords ==
  Cardinality({j \in DOMAIN recorded : recorded[j].type = "sound"})

----------------------------------------------------------------------------
\* the source a sound cue asks for, resolved against the base URL
AudioSourceOf(text) ==
  CASE text = TextFull -> "http://localhost:8787/s/a.mp3"
    [] text = TextNoReward -> "http://localhost:8787/s/a.mp3"
    [] text = TextPlain -> "http://localhost:8787/s/b.mp3"
    [] text = TextEmptyUser -> "http://localhost:8787/s/b.mp3"

(* C23: every audio play attempt is preceded, within the handling of the    *)
(* same cue, by setting the volume of the audio handle to the Dashboard's   *)
(* current volume and then assigning the cue's source resolved against the  *)
(* base URL, however volume changes and cues interleave.                    *)
VolumeAndSourceBeforePlay ==
  [][Calls(trace', "audio.play")
       => /\ 0 < Position(trace', "audio.volume")
          /\ Position(trace', "audio.volume") < Position(trace', "audio.src")
          /\ Position(trace', "audio.src") < Position(trace', "audio.play")
          /\ audio'.volume = volume
          /\ (last'.data \in WellFormed)
               => (audio'.src = AudioSourceOf(last'.data))]_vars

\* a cue was played after the volume had been changed
PlayedAtChangedVolume ==
  /\ last.op = "play-sound"
  /\ last.data = TextPlain
  /\ volume = 50
  /\ audio.volume = 50
  /\ audio.src = "http://localhost:8787/s/b.mp3"
  /\ plays # <<>>

----------------------------------------------------------------------------
\* the audio handles there are: the <audio> element attached to audioRef
\* and the ones new Audio() made
AudioHandles(a) == (IF a.ref = "element" THEN 1 ELSE 0) + a.created

----------------------------------------------------------------------------
(* Vocabulary of the uptime property *)

IsDigit(c) == \E d \in 0..9 : DigitChar(d) = c

DigitValue(c) == CHOOSE d \in 0..9 : DigitChar(d) = c

RECURSIVE ParseNumber(_)
\* the number a sequence of digits denotes
ParseNumber(s) ==
  IF s = <<>> THEN 0
  ELSE ParseNumber(SubSeq(s, 1, Len(s) - 1)) * 10 + DigitValue(s[Len(s)])

\* s reads HH:MM:SS with HH of two digits or more, MM and SS of two digits
\* and at most 59, and denotes that many whole seconds
ReadsAsSeconds(s, total) ==
  LET n == Len(s)
      HH == SubSeq(s, 1, n - 6)
      MM == SubSeq(s, n - 4, n - 3)
      SS == SubSeq(s, n - 1, n)
  IN  /\ n >= 8
      /\ s[n - 5] = ":"
      /\ s[n - 2] = ":"
      /\ \A j \in (DOMAIN s) \ {n - 5, n - 2} : IsDigit(s[j])
      /\ ParseNumber(MM) <= 59
      /\ ParseNumber(SS) <= 59
      /\ ParseNumber(HH) * 3600 + ParseNumber(MM) * 60 + ParseNumber(SS) = total

(* C25: on each tick of the interval the uptime string is "00:00:00" when   *)
(* connectedAt is not set; otherwise, for the difference d >= 0 between the *)
(* clock and connectedAt, it reads HH:MM:SS with MM and SS in 0..59, every  *)
(* field padded with zeros to two digits or more, and                       *)
(* HH*3600 + MM*60 + SS = floor(d / 1000): it is computed anew from the     *)
(* stored instant at each tick.                                             *)
UptimeReadsElapsed ==
  (last.op = "uptime-tick")
    => IF connectedAt = Absent
       THEN uptime = <<"0", "0", ":", "0", "0", ":", "0", "0">>
       ELSE ReadsAsSeconds(uptime, (now - connectedAt[1]) \div 1000)

\* the interval fired a hundred hours and a second after the connection
\* opened
UptimeOfHundredHours ==
  /\ last.op = "uptime-tick"
  /\ connectedAt # Absent
  /\ now - connectedAt[1] = 360001000
  /\ uptime = <<"1", "0", "0", ":", "0", "0", ":", "0", "1">>

----------------------------------------------------------------------------
(* C26: every toast that is set is eventually cleared: with finitely many   *)
(* cues, and timers that run when they are due, the toast of either         *)
(* component eventually is null and stays null, also when the connection    *)
(* was closed while a clearance was pending.                                *)
ToastEventuallyCleared == <>[](toast = Absent /\ vtoast = Absent)

\* a cue set the toast, the connection was closed by the cleanup while the
\* clearance was pending, and the clearance has run
ClearedAfterClose ==
  /\ last.op = "toast-timeout"
  /\ toast = Absent
  /\ timers = <<>>
  /\ Len(recorded) >= 3
  /\ recorded[Len(recorded)].description = "Connecting to server..."
  /\ recorded[Len(recorded) - 1].description = "Disconnected from server"
  /\ recorded[Len(recorded) - 2].type = "sound"
  /\ shown # Absent
  /\ now = shown[1].at + 5000

----------------------------------------------------------------------------
(* C27: at most one transport is live at any time: whatever the sequence of *)
(* volume changes and mute toggles, every EventSource but the newest one is *)
(* closed, so a delivered cue is handled by one set of listeners only.      *)
OneLiveTransport ==
  /\ \A i \in DOMAIN es : (i < Len(es)) => (es[i].state = "closed")
  /\ Cardinality({i \in DOMAIN es : es[i].state # "closed"}) <= 1

\* the third EventSource is open after a change of the volume and of the
\* mute flag
ThirdTransportOpen ==
  /\ Len(es) = 3
  /\ es[3].state = "open"
  /\ es[1].state = "closed"
  /\ es[2].state = "closed"
  /\ es[1].volume # es[3].volume
  /\ es[1].muted # es[3].muted

----------------------------------------------------------------------------
(* C28: every change of the volume or of the mute flag tears the connection *)
(* down and opens a new one: it adds a "Disconnected from server" record    *)
(* and then a "Connecting to server..." record, closes the EventSource and  *)
(* creates another, sets the status to connecting even if it was connected, *)
(* and leaves connectedAt as it was.                                        *)
SettingChangeReconnects ==
  [][(muted' # muted \/ volume' # volume)
       => /\ AddedDescriptions
               = <<"Disconnected from server", "Connecting to server...">>
          /\ es[Len(es)].state # "closed" => es'[Len(es)].state = "closed"
          /\ Len(es') = Len(es) + 1
          /\ es'[Len(es')] = [state |-> "connecting", muted |-> muted',
                              volume |-> volume']
          /\ status' = "connecting"
          /\ connectedAt' = connectedAt]_vars

\* the mute flag was changed while connected: the status is connecting and
\* connectedAt is still set
ReconnectingAfterToggle ==
  /\ last.op = "toggle-mute"
  /\ status = "connecting"
  /\ connectedAt # Absent
  /\ PreviousDescription = "Disconnected from server"
  /\ Len(es) = 2

----------------------------------------------------------------------------
----------------------------------------------------------------------------
(* C31: between any two handlers of the VideoOverlay the surface is visible *)
(* if and only if the video element has a source assigned: not visible and  *)
(* no source at the start and after an end or an error, visible with a      *)
(* source after every play-video cue that was handled.                      *)
VisibleIffSource == visible <=> (video.src # Absent)

\* a video failed and its error handler has run: no source, not visible
VideoFailedAndHidden ==
  /\ last.op = "on-error"
  /\ last.of # Absent
  /\ video.src = Absent
  /\ video.resource = Absent
  /\ ~visible

----------------------------------------------------------------------------
(* C32: whenever the status is connected, connectedAt is set; onopen and    *)
(* the "connected" listener set it to the current instant each time they    *)
(* run; once set it is never cleared, and a transport error, the cleanup of *)
(* the connection and clearHistory leave it as it is, so the uptime counts  *)
(* from the last successful connect while the status is connecting.         *)
ConnectedAtKept ==
  [][/\ (status' = "connected") => (connectedAt' # Absent)
     /\ (last'.op \in {"open", "connected"}) => (connectedAt' = Some(now))
     /\ (connectedAt # Absent) => (connectedAt' # Absent)
     /\ (last'.op \in {"error", "toggle-mute", "change-volume", "clear-history"})
          => (connectedAt' = connectedAt)]_vars

\* the transport dropped after the server had confirmed the connection, a
\* millisecond after it opened: the status is connecting and connectedAt is
\* the instant of the confirmation
ConnectedAtSurvivesError ==
  /\ last.op = "error"
  /\ status = "connecting"
  /\ PreviousDescription = "Server connection established"
  /\ connectedAt # Absent
  /\ connectedAt[1] < now
  /\ connectedAt[1] = recorded[Len(recorded) - 1].timestamp
  /\ recorded[Len(recorded) - 2].timestamp < connectedAt[1]

====
